---- MODULE Spec2Model ----
(***************************************************************************)
(* The decoders that valence_derive generates (#[derive(Decode)] and       *)
(* #[derive(DecodePacket)], valence_derive/src/decode.rs), run as a stack  *)
(* machine over a byte cursor.  Every Decode::decode call is a frame; the  *)
(* generated bodies are interpreted over the type declarations below.      *)
(* The backtick of the generated context strings is written ' here.        *)
(***************************************************************************)
EXTENDS Integers, Sequences, FiniteSets, TLC

VARIABLES buf, r, root, stack, ret, calls, run, prev, build

vars == <<buf, r, root, stack, ret, calls, run, prev, build>>

(* ---------------- bounds of the exploration ---------------- *)

\* longest input buffer
MaxLen == 5

\* the byte values the input buffers are built from:
\* 0x00 0x02 0x0F (terminating bytes), 0xAC (continuation bit set)
ByteSet == {0, 2, 15, 172}

RECURSIVE SeqsUpTo(_)
SeqsUpTo(n) ==
    IF n = 0 THEN {<<>>}
    ELSE LET S == SeqsUpTo(n - 1)
         IN  S \cup {Append(s, b) : s \in {t \in S : Len(t) = n - 1}, b \in ByteSet}

Buffers == SeqsUpTo(MaxLen)

(* ---------------- the type declarations that derive Decode ---------------- *)

NoId == "none"

Member(name, ty) == [name |-> name, ty |-> ty]

Variant(disc, name, fields, members) ==
    [disc |-> disc, name |-> name, fields |-> fields, members |-> members]

StructDef(fields, members, id) ==
    [data |-> "struct", fields |-> fields, members |-> members,
     variants |-> <<>>, packet_id |-> id]

EnumDef(variants, id) ==
    [data |-> "enum", fields |-> "unit", members |-> <<>>,
     variants |-> variants, packet_id |-> id]

PrimDef == [data |-> "prim", fields |-> "unit", members |-> <<>>,
            variants |-> <<>>, packet_id |-> NoId]

\* struct Unit;                                   #[packet_id = 15]
\* struct Pair { a: u8, b: u8 }                   #[packet_id = 2]
\* struct Tup(u16, PingPong);
\* enum PingPong { Ping, Pong }
\* enum Msg { Quit, Move { x: u8, y: u16 } = 2, Echo(PingPong, u8) = 300 }
\*                                                #[packet_id = 300]
\* struct Outer { x: u8, y: Msg }
Def(ty) ==
    CASE ty = "Unit" -> StructDef("unit", <<>>, 15)
      [] ty = "Pair" -> StructDef("named", <<Member("a", "u8"), Member("b", "u8")>>, 2)
      [] ty = "Tup" -> StructDef("unnamed", <<Member("0", "u16"), Member("1", "PingPong")>>, NoId)
      [] ty = "PingPong" ->
            EnumDef(<<Variant(0, "Ping", "unit", <<>>),
                      Variant(1, "Pong", "unit", <<>>)>>, NoId)
      [] ty = "Msg" ->
            EnumDef(<<Variant(0, "Quit", "unit", <<>>),
                      Variant(2, "Move", "named",
                              <<Member("x", "u8"), Member("y", "u16")>>),
                      Variant(300, "Echo", "unnamed",
                              <<Member("0", "PingPong"), Member("1", "u8")>>)>>, 300)
      [] ty = "Outer" -> StructDef("named", <<Member("x", "u8"), Member("y", "Msg")>>, NoId)
      [] OTHER -> PrimDef

DecodeRoots == {"VarInt", "Unit", "Pair", "Tup", "PingPong", "Msg", "Outer"}

PacketRoots == {"Unit", "Pair", "Msg"}

Roots == {[ty |-> t, fn |-> "decode"] : t \in DecodeRoots}
            \cup {[ty |-> t, fn |-> "decode_packet"] : t \in PacketRoots}

(* ---------------- values and results ---------------- *)

Value(ty, variant, prim, fields) ==
    [ty |-> ty, variant |-> variant, prim |-> prim, fields |-> fields]

NoValue == Value("", "", 0, <<>>)

None == [tag |-> "none", value |-> NoValue, chain |-> <<>>]

Ok(v) == [tag |-> "ok", value |-> v, chain |-> <<>>]

\* bail!(msg) / a failed ensure!: an error whose chain is the root cause alone
Err(msg) == [tag |-> "err", value |-> NoValue, chain |-> <<msg>>]

\* a context that replaces the error instead of wrapping it
Context_Replacing(res, ctx) ==
    IF res.tag = "err" THEN [res EXCEPT !.chain = <<ctx>>] ELSE res

\* Context::context on a Result: Ok passes, Err gets one more entry
Context(res, ctx) ==
    IF res.tag = "err" THEN [res EXCEPT !.chain = Append(@, ctx)] ELSE res

(* ---------------- the machine ---------------- *)

Consumed == Len(buf) - Len(r)

Top == stack[Len(stack)]

\* a decode that builds its fields on what the call before it left behind
Frame_Stale(ty, fn, id) ==
    [ty |-> ty, fn |-> fn, id |-> id, pc |-> "start", i |-> 0, v |-> 0,
     acc |-> prev.out.value.fields, val |-> 0]

Frame(ty, fn, id) ==
    [ty |-> ty, fn |-> fn, id |-> id, pc |-> "start", i |-> 0, v |-> 0,
     acc |-> <<>>, val |-> 0]

CallRec(ty, fn, parent, start) ==
    [ty |-> ty, fn |-> fn, parent |-> parent, start |-> start, end |-> -1,
     out |-> None]

Init ==
    /\ buf \in Buffers
    /\ r = buf
    /\ root \in Roots
    /\ run = 1
    /\ prev = [out |-> None, consumed |-> 0, rest |-> <<>>, plan |-> "first"]
    /\ build = "unset"
    /\ stack = <<Frame(root.ty, root.fn, 1)>>
    /\ calls = <<CallRec(root.ty, root.fn, 0, 0)>>
    /\ ret = None

\* parent frame `f` calls Decode::decode / Self::decode of `ty`
DoCall(f, ty, fn) ==
    /\ stack' = Append([stack EXCEPT ![Len(stack)] = f],
                       Frame(ty, fn, Len(calls) + 1))
    /\ calls' = Append(calls, CallRec(ty, fn, f.id, Consumed))
    /\ ret' = None

\* the top frame returns `res`, leaving the cursor at `rest`
DoReturn(res, rest) ==
    /\ stack' = SubSeq(stack, 1, Len(stack) - 1)
    /\ calls' = [calls EXCEPT ![Top.id] =
                    [@ EXCEPT !.end = Len(buf) - Len(rest), !.out = res]]
    /\ ret' = res
    /\ r' = rest

\* the top frame goes on as `f`
Continue(f) ==
    /\ stack' = [stack EXCEPT ![Len(stack)] = f]
    /\ ret' = None
    /\ UNCHANGED calls

Running == stack # <<>>

Done == stack = <<>>

(* ---------------- VarInt and the primitives ---------------- *)

\* VarInt::MAX_SIZE
MAX_SIZE == 5

Pow2(n) == 2 ^ n

\* i32::MIN
MinI32 == -Pow2(30) - Pow2(30)

\* a | b on two's-complement integers
RECURSIVE BitOr(_, _)
BitOr(a, b) ==
    IF a = 0 THEN b
    ELSE IF b = 0 THEN a
    ELSE IF a = -1 \/ b = -1 THEN -1
    ELSE (IF a % 2 = 1 \/ b % 2 = 1 THEN 1 ELSE 0) + 2 * BitOr(a \div 2, b \div 2)

\* x << n on i32, 0 <= x and 0 <= n < 32: the bits shifted past bit 31 are
\* lost and bit 31 is the sign
Shl32(x, n) ==
    IF n = 0 THEN x
    ELSE LET kept == x % Pow2(31 - n)
             sign == (x \div Pow2(31 - n)) % 2
         IN  (IF sign = 1 THEN MinI32 ELSE 0) + kept * Pow2(n)

\* a shift of 8 bits per byte instead of 7
VarIntAccumulate_Shift8(val, byte, i) == BitOr(val, Shl32(byte % 128, i * 8))

\* val | (byte as i32 & 0b01111111) << (i * 7)
VarIntAccumulate(val, byte, i) == BitOr(val, Shl32(byte % 128, i * 7))

\* byte & 0b10000000 == 0
IsLastByte(byte) == byte < 128

EofMsg == "unexpected end of buffer"

TooLargeMsg == "VarInt is too large"

\* one turn of VarInt::decode's loop; the bail! after the loop belongs to
\* the turn that ends it
VarIntDecode ==
    /\ Running /\ Top.ty = "VarInt" /\ ret.tag = "none"
    /\ IF r = <<>>
       THEN DoReturn(Err(EofMsg), r)
       ELSE LET byte == Head(r)
                val  == VarIntAccumulate(Top.val, byte, Top.i)
            IN  IF IsLastByte(byte)
                THEN DoReturn(Ok(Value("VarInt", "", val, <<>>)), Tail(r))
                ELSE IF Top.i + 1 = MAX_SIZE
                THEN DoReturn(Err(TooLargeMsg), Tail(r))
                ELSE /\ Continue([Top EXCEPT !.i = @ + 1, !.val = val])
                     /\ r' = Tail(r)
    /\ UNCHANGED <<buf, root, run, prev, build>>

PrimSize(ty) == IF ty = "u16" THEN 2 ELSE 1

RECURSIVE BigEndian(_)
BigEndian(bytes) ==
    IF bytes = <<>> THEN 0
    ELSE bytes[Len(bytes)] + 256 * BigEndian(SubSeq(bytes, 1, Len(bytes) - 1))

\* u8::decode / u16::decode.  A read that finds too few bytes fails; what
\* it leaves of them in the cursor depends on the build's read_exact, which
\* either leaves them all or takes them all, the same way every time.
PrimDecode ==
    /\ Running /\ Top.ty \in {"u8", "u16"} /\ ret.tag = "none"
    /\ LET n     == PrimSize(Top.ty)
           short == Len(r) < n
       IN  \E b \in (IF short /\ r # <<>> /\ build = "unset"
                     THEN {"keeps", "drains"} ELSE {build}) :
              /\ build' = IF short /\ r # <<>> THEN b ELSE build
              /\ IF short
                 THEN DoReturn(Err(EofMsg), IF b = "drains" THEN <<>> ELSE r)
                 ELSE DoReturn(Ok(Value(Top.ty, "", BigEndian(SubSeq(r, 1, n)), <<>>)),
                               SubSeq(r, n + 1, Len(r)))
    /\ UNCHANGED <<buf, root, run, prev>>

(* ---------------- #[derive(Decode)] on a struct ---------------- *)

IsStruct(f) == f.fn = "decode" /\ Def(f.ty).data = "struct"

\* format!("failed to decode field `{name}`") ; unnamed fields: `{i}`
StructFieldCtx(fields, members, i) ==
    "failed to decode field '"
        \o (IF fields = "named" THEN members[i + 1].name ELSE ToString(i))
        \o "'"

\* the fields decoded last to first
StructDecodeField_Reversed ==
    /\ Running /\ IsStruct(Top) /\ ret.tag = "none"
    /\ Top.i < Len(Def(Top.ty).members)
    /\ DoCall(Top, Def(Top.ty).members[Len(Def(Top.ty).members) - Top.i].ty, "decode")
    /\ UNCHANGED <<buf, r, root, run, prev, build>>

\* Decode::decode(_r) of the next field, in declaration order
StructDecodeField ==
    /\ Running /\ IsStruct(Top) /\ ret.tag = "none"
    /\ Top.i < Len(Def(Top.ty).members)
    /\ DoCall(Top, Def(Top.ty).members[Top.i + 1].ty, "decode")
    /\ UNCHANGED <<buf, r, root, run, prev, build>>

\* a field that failed is skipped and left at its default
StructFieldResult_Skipping ==
    /\ Running /\ IsStruct(Top) /\ ret.tag # "none"
    /\ Continue([Top EXCEPT !.i = @ + 1,
                            !.acc = Append(@, IF ret.tag = "err" THEN NoValue
                                              ELSE ret.value)])
    /\ UNCHANGED r
    /\ UNCHANGED <<buf, root, run, prev, build>>

\* .context(ctx)? on the field's result
StructFieldResult ==
    /\ Running /\ IsStruct(Top) /\ ret.tag # "none"
    /\ LET d == Def(Top.ty)
       IN  IF ret.tag = "err"
           THEN DoReturn(Context(ret, StructFieldCtx(d.fields, d.members, Top.i)), r)
           ELSE /\ Continue([Top EXCEPT !.i = @ + 1, !.acc = Append(@, ret.value)])
                /\ UNCHANGED r
    /\ UNCHANGED <<buf, root, run, prev, build>>

\* Ok(Self { .. }) / Ok(Self(..)) / Ok(Self)
StructFinish ==
    /\ Running /\ IsStruct(Top) /\ ret.tag = "none"
    /\ Top.i = Len(Def(Top.ty).members)
    /\ DoReturn(Ok(Value(Top.ty, "", 0, Top.acc)), r)
    /\ UNCHANGED <<buf, root, run, prev, build>>


(* ---------------- #[derive(Decode)] on an enum ---------------- *)

IsEnum(f) == f.fn = "decode" /\ Def(f.ty).data = "enum"

DiscCtx == "failed to decode enum discriminant"

\* format!("failed to decode field `{field}` in variant `{name}`")
VariantFieldCtx(variant, i) ==
    "failed to decode field '"
        \o (IF variant.fields = "named" THEN variant.members[i + 1].name
            ELSE ToString(i))
        \o "' in variant '" \o variant.name \o "'"

\* bail!("unexpected enum discriminant {}", disc)
UnexpectedDisc(disc) == "unexpected enum discriminant " \o ToString(disc)

\* an unknown discriminant falls to the first variant
MatchArm_DefaultFirst(variants, disc) ==
    IF \E k \in 1..Len(variants) : variants[k].disc = disc
    THEN CHOOSE k \in 1..Len(variants) : variants[k].disc = disc
    ELSE 1

\* the discriminant taken as the variant's position in the declaration
MatchArm_ByPosition(variants, disc) ==
    IF disc + 1 \in 1..Len(variants) THEN disc + 1 ELSE 0

\* match disc { #decode_arms  n => bail!(..) }: the first arm whose literal
\* equals disc, 0 for the catch-all arm
MatchArm(variants, disc) ==
    IF \E k \in 1..Len(variants) : variants[k].disc = disc
    THEN CHOOSE k \in 1..Len(variants) :
            /\ variants[k].disc = disc
            /\ \A j \in 1..(k - 1) : variants[j].disc # disc
    ELSE 0

\* VarInt::decode(_r) for the discriminant
EnumDecodeDisc ==
    /\ Running /\ IsEnum(Top) /\ Top.pc = "start" /\ ret.tag = "none"
    /\ DoCall([Top EXCEPT !.pc = "disc"], "VarInt", "decode")
    /\ UNCHANGED <<buf, r, root, run, prev, build>>

\* the discriminant is put back when no variant has it
EnumMatch_Restoring ==
    /\ Running /\ IsEnum(Top) /\ Top.pc = "disc" /\ ret.tag # "none"
    /\ IF ret.tag = "err"
       THEN DoReturn(Context(ret, DiscCtx), r)
       ELSE LET disc == ret.value.prim
                arm  == MatchArm(Def(Top.ty).variants, disc)
            IN  IF arm = 0
                THEN DoReturn(Err(UnexpectedDisc(disc)),
                              SubSeq(buf, calls[Top.id].start + 1, Len(buf)))
                ELSE /\ Continue([Top EXCEPT !.pc = "variant", !.v = arm])
                     /\ UNCHANGED r
    /\ UNCHANGED <<buf, root, run, prev, build>>

\* .context("failed to decode enum discriminant")?.0 and the match on it
EnumMatch ==
    /\ Running /\ IsEnum(Top) /\ Top.pc = "disc" /\ ret.tag # "none"
    /\ IF ret.tag = "err"
       THEN DoReturn(Context(ret, DiscCtx), r)
       ELSE LET disc == ret.value.prim
                arm  == MatchArm(Def(Top.ty).variants, disc)
            IN  IF arm = 0
                THEN DoReturn(Err(UnexpectedDisc(disc)), r)
                ELSE /\ Continue([Top EXCEPT !.pc = "variant", !.v = arm])
                     /\ UNCHANGED r
    /\ UNCHANGED <<buf, root, run, prev, build>>

InVariant(f) == IsEnum(f) /\ f.pc = "variant"

\* Decode::decode(_r) of the matched variant's next field
EnumDecodeField ==
    /\ Running /\ InVariant(Top) /\ ret.tag = "none"
    /\ Top.i < Len(Def(Top.ty).variants[Top.v].members)
    /\ DoCall(Top, Def(Top.ty).variants[Top.v].members[Top.i + 1].ty, "decode")
    /\ UNCHANGED <<buf, r, root, run, prev, build>>

\* .context(ctx)? on the variant field's result
EnumFieldResult ==
    /\ Running /\ InVariant(Top) /\ ret.tag # "none"
    /\ IF ret.tag = "err"
       THEN DoReturn(Context(ret, VariantFieldCtx(Def(Top.ty).variants[Top.v], Top.i)), r)
       ELSE /\ Continue([Top EXCEPT !.i = @ + 1, !.acc = Append(@, ret.value)])
            /\ UNCHANGED r
    /\ UNCHANGED <<buf, root, run, prev, build>>

\* Ok(Self::Name { .. }) / Ok(Self::Name(..)) / Ok(Self::Name)
EnumFinish ==
    /\ Running /\ InVariant(Top) /\ ret.tag = "none"
    /\ Top.i = Len(Def(Top.ty).variants[Top.v].members)
    /\ DoReturn(Ok(Value(Top.ty, Def(Top.ty).variants[Top.v].name, 0, Top.acc)), r)
    /\ UNCHANGED <<buf, root, run, prev, build>>

(* ---------------- #[derive(DecodePacket)] ---------------- *)

IsPacket(f) == f.fn = "decode_packet"

\* const PACKET_ID: i32 = #packet_id
PACKET_ID(ty) == Def(ty).packet_id

PacketIdCtx == "failed to decode packet ID"

\* "unexpected packet ID {} (expected {})"
UnexpectedId(id, want) ==
    "unexpected packet ID " \o ToString(id) \o " (expected " \o ToString(want) \o ")"

\* VarInt::decode(r) for the packet ID
PacketDecodeId ==
    /\ Running /\ IsPacket(Top) /\ Top.pc = "start" /\ ret.tag = "none"
    /\ DoCall([Top EXCEPT !.pc = "id"], "VarInt", "decode")
    /\ UNCHANGED <<buf, r, root, run, prev, build>>

\* the ensure! left out: Self::decode runs whatever the ID
PacketEnsure_Unchecked ==
    /\ Running /\ IsPacket(Top) /\ Top.pc = "id" /\ ret.tag # "none"
    /\ IF ret.tag = "err"
       THEN DoReturn(Context(ret, PacketIdCtx), r)
       ELSE /\ DoCall([Top EXCEPT !.pc = "body"], Top.ty, "decode")
            /\ UNCHANGED r
    /\ UNCHANGED <<buf, root, run, prev, build>>

\* .context("failed to decode packet ID")?.0, the ensure!, then Self::decode(r)
PacketEnsure ==
    /\ Running /\ IsPacket(Top) /\ Top.pc = "id" /\ ret.tag # "none"
    /\ IF ret.tag = "err"
       THEN DoReturn(Context(ret, PacketIdCtx), r)
       ELSE LET id == ret.value.prim
            IN  IF id # PACKET_ID(Top.ty)
                THEN DoReturn(Err(UnexpectedId(id, PACKET_ID(Top.ty))), r)
                ELSE /\ DoCall([Top EXCEPT !.pc = "body"], Top.ty, "decode")
                     /\ UNCHANGED r
    /\ UNCHANGED <<buf, root, run, prev, build>>

\* Self::decode(r) wrapped in a context of its own
PacketFinish_Wrapping ==
    /\ Running /\ IsPacket(Top) /\ Top.pc = "body" /\ ret.tag # "none"
    /\ DoReturn(Context(ret, "failed to decode packet body"), r)
    /\ UNCHANGED <<buf, root, run, prev, build>>

\* decode_packet's value is Self::decode(r)'s
PacketFinish ==
    /\ Running /\ IsPacket(Top) /\ Top.pc = "body" /\ ret.tag # "none"
    /\ DoReturn(ret, r)
    /\ UNCHANGED <<buf, root, run, prev, build>>

(* ---------------- the caller ---------------- *)

Outcome(plan) == [out |-> ret, consumed |-> Consumed, rest |-> r, plan |-> plan]

Start(bytes, ty, fn) ==
    /\ buf' = bytes
    /\ r' = bytes
    /\ root' = [ty |-> ty, fn |-> fn]
    /\ stack' = <<Frame(ty, fn, 1)>>
    /\ calls' = <<CallRec(ty, fn, 0, 0)>>
    /\ ret' = None

\* the caller decodes the same bytes a second time
DecodeAgain ==
    /\ Done /\ run = 1
    /\ Start(buf, root.ty, root.fn)
    /\ run' = 2
    /\ prev' = Outcome("again")
    /\ UNCHANGED build

\* after a decode_packet whose ID matched, the caller runs the type's
\* structural decode on the bytes that followed the ID
DecodeBody ==
    /\ Done /\ run = 1 /\ root.fn = "decode_packet"
    /\ Len(calls) >= 3
    /\ Start(SubSeq(buf, calls[2].end + 1, Len(buf)), root.ty, "decode")
    /\ run' = 2
    /\ prev' = Outcome("body")
    /\ UNCHANGED build

Next ==
    \/ VarIntDecode
    \/ PrimDecode
    \/ StructDecodeField
    \/ StructFieldResult
    \/ StructFinish
    \/ EnumDecodeDisc
    \/ EnumMatch
    \/ EnumDecodeField
    \/ EnumFieldResult
    \/ EnumFinish
    \/ PacketDecodeId
    \/ PacketEnsure
    \/ PacketFinish
    \/ DecodeAgain
    \/ DecodeBody

Spec == Init /\ [][Next]_vars


(* ---------------- the call log, as the properties read it ---------------- *)

CallIds == 1..Len(calls)

Closed(k) == calls[k].end >= 0

Failed(k) == calls[k].out.tag = "err"

Succeeded(k) == calls[k].out.tag = "ok"

Kids(c) == {k \in CallIds : calls[k].parent = c}

RECURSIVE Sorted(_)
Sorted(S) ==
    IF S = {} THEN <<>>
    ELSE LET m == CHOOSE x \in S : \A y \in S : x <= y
         IN  <<m>> \o Sorted(S \ {m})

KidSeq(c) == Sorted(Kids(c))

Used(k) == calls[k].end - calls[k].start

IsPacketCall(k) == calls[k].fn = "decode_packet"

IsEnumCall(k) == calls[k].fn = "decode" /\ Def(calls[k].ty).data = "enum"

IsStructCall(k) == calls[k].fn = "decode" /\ Def(calls[k].ty).data = "struct"

IsVarIntCall(k) == calls[k].ty = "VarInt"

\* the leading VarInt of call k has been read and is `n`
TagRead(k) == Len(calls) > k /\ IsVarIntCall(k + 1) /\ Succeeded(k + 1)

Tag(k) == calls[k + 1].out.value.prim

Discs(ty) == {Def(ty).variants[j].disc : j \in 1..Len(Def(ty).variants)}

(* ---------------- C1 ---------------- *)

\* C1: when the leading VarInt of a packet buffer decodes to an id other than
\* the type's PACKET_ID, decode_packet fails with "unexpected packet ID <id>
\* (expected <P>)" and Self::decode is never called: the ID read is the only
\* call decode_packet makes.
C1_PacketIdMismatch ==
    \A p \in CallIds :
        (IsPacketCall(p) /\ TagRead(p) /\ Tag(p) # Def(calls[p].ty).packet_id) =>
            /\ Kids(p) = {p + 1}
            /\ Len(calls) = p + 1
            /\ Closed(p) =>
                 calls[p].out.chain =
                    <<"unexpected packet ID " \o ToString(Tag(p)) \o " (expected "
                        \o ToString(Def(calls[p].ty).packet_id) \o ")">>
            /\ Closed(p) => Failed(p)
            /\ Done => Closed(p)

C1_Witness ==
    /\ Done /\ run = 1
    /\ root = [ty |-> "Pair", fn |-> "decode_packet"]
    /\ buf = <<15, 0, 2>>
    /\ ret.tag = "err"
    /\ ret.chain = <<"unexpected packet ID 15 (expected 2)">>

(* ---------------- C2 ---------------- *)

\* C2: when the leading VarInt of an enum decodes to a value d (negative
\* ones included) that no declared variant has, the decode fails with
\* "unexpected enum discriminant <d>" and decodes no variant field.
C2_UnknownDiscriminant ==
    \A e \in CallIds :
        (IsEnumCall(e) /\ TagRead(e) /\ Tag(e) \notin Discs(calls[e].ty)) =>
            /\ Kids(e) = {e + 1}
            /\ Closed(e) =>
                 /\ Failed(e)
                 /\ calls[e].out.chain =
                        <<"unexpected enum discriminant " \o ToString(Tag(e))>>
            /\ Done => Closed(e)

C2_Witness ==
    /\ Done /\ run = 1
    /\ root = [ty |-> "PingPong", fn |-> "decode"]
    /\ buf = <<172, 172, 172, 172, 15>>
    /\ ret.tag = "err"
    /\ ret.chain = <<"unexpected enum discriminant -175434196">>


(* ---------------- C3 ---------------- *)

RECURSIVE SumUsed(_)
SumUsed(ks) == IF ks = <<>> THEN 0 ELSE Used(Head(ks)) + SumUsed(Tail(ks))

\* the calls ks decode `members`' leading fields in order, the first at
\* cursor position `from`, each next one where the one before it ended
InOrderFrom(ks, members, from) ==
    /\ Len(ks) <= Len(members)
    /\ \A i \in 1..Len(ks) :
          /\ calls[ks[i]].ty = members[i].ty
          /\ calls[ks[i]].fn = "decode"
          /\ calls[ks[i]].start = IF i = 1 THEN from ELSE calls[ks[i - 1]].end
          /\ i > 1 => Succeeded(ks[i - 1])

AllSucceeded(ks) == \A i \in 1..Len(ks) : Succeeded(ks[i])

ValuesOf(ks) == [i \in 1..Len(ks) |-> calls[ks[i]].out.value]

\* C3: a struct decode decodes its fields in declaration order, field i
\* starting where field i-1 ended; when every field decodes, it succeeds
\* having advanced the cursor by exactly the sum of the fields' bytes (none
\* for a struct without fields), and the bytes after them stay in the cursor.
C3_StructInOrder ==
    /\ r = SubSeq(buf, Consumed + 1, Len(buf))
    /\ \A s \in CallIds :
          IsStructCall(s) =>
            LET ks == KidSeq(s)
                ms == Def(calls[s].ty).members
            IN  /\ InOrderFrom(ks, ms, calls[s].start)
                /\ Succeeded(s) =>
                     /\ Len(ks) = Len(ms)
                     /\ AllSucceeded(ks)
                     /\ Used(s) = SumUsed(ks)
                     /\ calls[s].end =
                          IF ks = <<>> THEN calls[s].start ELSE calls[ks[Len(ks)]].end
                     /\ calls[s].out.value = Value(calls[s].ty, "", 0, ValuesOf(ks))
                     /\ (s = 1 /\ Done) => Consumed = calls[s].end
                /\ (Done /\ Len(ks) = Len(ms) /\ AllSucceeded(ks)) => Succeeded(s)

C3_Witness ==
    /\ Done /\ run = 1
    /\ root = [ty |-> "Pair", fn |-> "decode"]
    /\ buf = <<2, 15, 172>>
    /\ ret = Ok(Value("Pair", "", 0, <<Value("u8", "", 2, <<>>), Value("u8", "", 15, <<>>)>>))
    /\ r = <<172>>

(* ---------------- C4 ---------------- *)

VariantOf(ty, d) ==
    LET vs == Def(ty).variants
    IN  vs[CHOOSE j \in 1..Len(vs) : vs[j].disc = d]

\* C4: when the leading VarInt of an enum (with unique discriminants) is the
\* discriminant of variant V, the decode decodes V's fields and no other
\* variant's, in V's declaration order, starting right after the
\* discriminant; when they all decode it returns the value tagged V, having
\* consumed the discriminant's bytes plus the fields' bytes.
C4_EnumDispatch ==
    \A e \in CallIds :
        (IsEnumCall(e) /\ TagRead(e) /\ Tag(e) \in Discs(calls[e].ty)) =>
            LET V  == VariantOf(calls[e].ty, Tag(e))
                ks == Tail(KidSeq(e))
            IN  /\ Head(KidSeq(e)) = e + 1
                /\ calls[e + 1].start = calls[e].start
                /\ InOrderFrom(ks, V.members, calls[e + 1].end)
                /\ Succeeded(e) =>
                     /\ Len(ks) = Len(V.members)
                     /\ AllSucceeded(ks)
                     /\ calls[e].out.value = Value(calls[e].ty, V.name, 0, ValuesOf(ks))
                     /\ Used(e) = Used(e + 1) + SumUsed(ks)
                     /\ calls[e].end =
                          IF ks = <<>> THEN calls[e + 1].end ELSE calls[ks[Len(ks)]].end
                /\ (Done /\ Len(ks) = Len(V.members) /\ AllSucceeded(ks)) => Succeeded(e)

C4_Witness ==
    /\ Done /\ run = 1
    /\ root = [ty |-> "Msg", fn |-> "decode"]
    /\ buf = <<2, 15, 0, 2, 172>>
    /\ ret = Ok(Value("Msg", "Move", 0,
                      <<Value("u8", "", 15, <<>>), Value("u16", "", 2, <<>>)>>))
    /\ r = <<172>>


(* ---------------- C5 ---------------- *)

\* call j was made inside call k
RECURSIVE Within(_, _)
Within(k, j) ==
    LET p == calls[j].parent
    IN  p = k \/ (p > k /\ Within(k, p))

\* C5: the first failing step ends the decode with a failure: after a call
\* has failed no further call is made (every later entry of the log was made
\* inside it, before it failed), the caller of a failed call fails too, at
\* the cursor position of that failure, and a failure carries no value.
C5_FirstFailureEnds ==
    /\ \A k \in CallIds :
          Failed(k) =>
            /\ \A j \in CallIds : j > k => Within(k, j)
            /\ calls[k].out.value = NoValue
            /\ (calls[k].parent # 0 /\ Closed(calls[k].parent)) =>
                  /\ Failed(calls[k].parent)
                  /\ calls[calls[k].parent].end = calls[k].end
            /\ Done => Failed(1)
    /\ Done => (ret = calls[1].out /\ Consumed = calls[1].end)

C5_Witness ==
    /\ Done /\ run = 1
    /\ root = [ty |-> "Tup", fn |-> "decode"]
    /\ buf = <<0>>
    /\ ret.tag = "err"
    /\ Len(calls) = 2
    /\ build = "keeps" /\ r = <<0>>

(* ---------------- C6 ---------------- *)

FieldLabel(fields, members, n) ==
    IF fields = "named" THEN members[n].name ELSE ToString(n - 1)

\* the context the n-th call made by call k is wrapped in
ExpectedCtx(k, n) ==
    LET d == Def(calls[k].ty)
    IN  IF IsPacketCall(k)
        THEN IF n = 1 THEN <<"failed to decode packet ID">> ELSE <<>>
        ELSE IF IsEnumCall(k)
        THEN IF n = 1 THEN <<"failed to decode enum discriminant">>
             ELSE LET V == VariantOf(calls[k].ty, Tag(k))
                  IN  <<"failed to decode field '"
                          \o FieldLabel(V.fields, V.members, n - 1)
                          \o "' in variant '" \o V.name \o "'">>
        ELSE <<"failed to decode field '"
                 \o FieldLabel(d.fields, d.members, n) \o "'">>

\* call k fails of itself: a primitive or VarInt read, an enum whose
\* discriminant is unknown, a packet whose ID is not the expected one
RootCause(k) ==
    \/ Def(calls[k].ty).data = "prim"
    \/ IsEnumCall(k) /\ TagRead(k) /\ Tag(k) \notin Discs(calls[k].ty)
    \/ IsPacketCall(k) /\ TagRead(k) /\ Tag(k) # Def(calls[k].ty).packet_id

\* C6: the error of a failed decode is the root cause followed, from the
\* inside out, by one context entry per enclosing field, variant field,
\* discriminant or packet ID step; a decode fails only when a step of it
\* failed or it is itself the root cause.
C6_ContextChain ==
    \A k \in CallIds :
        (Closed(k) /\ Failed(k)) =>
            LET ks  == KidSeq(k)
                bad == {j \in Kids(k) : Failed(j)}
            IN  IF bad = {}
                THEN RootCause(k) /\ Len(calls[k].out.chain) = 1
                ELSE /\ bad = {ks[Len(ks)]}
                     /\ calls[k].out.chain =
                          calls[ks[Len(ks)]].out.chain \o ExpectedCtx(k, Len(ks))

C6_Witness ==
    /\ Done /\ run = 1
    /\ root = [ty |-> "Outer", fn |-> "decode"]
    /\ buf = <<0, 172, 2, 172>>
    /\ ret.tag = "err"
    /\ ret.chain = <<"unexpected end of buffer",
                     "failed to decode enum discriminant",
                     "failed to decode field '0' in variant 'Echo'",
                     "failed to decode field 'y'">>


(* ---------------- C7 ---------------- *)

Min(S) == CHOOSE x \in S : \A y \in S : x <= y

\* the i-th byte at and after cursor position `from`
ByteAt(from, i) == buf[from + i]

RECURSIVE LowBits(_, _)
LowBits(from, k) ==
    IF k = 0 THEN 0
    ELSE (ByteAt(from, k) % 128) * (128 ^ (k - 1)) + LowBits(from, k - 1)

\* the i32 whose two's-complement bits are the 7-bit payloads of the k
\* bytes after `from`, least significant first
PayloadValue(from, k) ==
    IF k < 5 THEN LowBits(from, k)
    ELSE LET p5 == ByteAt(from, 5) % 128
             u  == LowBits(from, 4) + (p5 % 8) * (2 ^ 28)
         IN  IF (p5 \div 8) % 2 = 1 THEN (u - 2 ^ 30) - 2 ^ 30 ELSE u

\* C7: VarInt decode reads one byte per turn and at most 5: it succeeds at
\* the first byte k <= 5 whose continuation bit is clear, consuming k bytes
\* and returning the i32 made of the 7-bit payloads, little end first; it
\* fails as too large when the first 5 bytes all have the bit set, and with
\* the different end-of-buffer error when the bytes run out before that.
C7_VarInt ==
    \A v \in CallIds :
        IsVarIntCall(v) =>
            LET from  == calls[v].start
                avail == Len(buf) - from
                n     == IF avail < 5 THEN avail ELSE 5
                ends  == {i \in 1..n : ByteAt(from, i) < 128}
            IN  /\ Closed(v) =>
                     IF ends # {}
                     THEN /\ Succeeded(v)
                          /\ Used(v) = Min(ends)
                          /\ calls[v].out.value =
                                Value("VarInt", "", PayloadValue(from, Min(ends)), <<>>)
                     ELSE IF avail >= 5
                     THEN /\ Failed(v)
                          /\ calls[v].out.chain = <<"VarInt is too large">>
                          /\ Used(v) <= 5
                     ELSE /\ Failed(v)
                          /\ calls[v].out.chain = <<"unexpected end of buffer">>
                /\ ~Closed(v) =>
                     /\ Top.id = v
                     /\ Consumed - from = Top.i
                     /\ Top.i < 5
                     /\ \A i \in 1..Top.i : ByteAt(from, i) >= 128

C7_Witness ==
    /\ Done /\ run = 1
    /\ root = [ty |-> "VarInt", fn |-> "decode"]
    /\ buf = <<172, 2, 0>>
    /\ ret = Ok(Value("VarInt", "", 300, <<>>))
    /\ Consumed = 2

(* ---------------- C8 ---------------- *)

\* C8: when the leading VarInt is the type's PACKET_ID, decode_packet makes
\* one more call, the type's decode at the byte after the ID, and returns
\* that call's outcome with the cursor where it left it: the same outcome
\* the type's decode gives when run by itself on the bytes after the ID.
C8_PacketIsIdThenDecode ==
    /\ \A p \in CallIds :
          (IsPacketCall(p) /\ TagRead(p) /\ Tag(p) = Def(calls[p].ty).packet_id
                /\ Closed(p)) =>
             /\ KidSeq(p) = <<p + 1, p + 2>>
             /\ calls[p + 2].ty = calls[p].ty
             /\ calls[p + 2].fn = "decode"
             /\ calls[p + 2].start = calls[p + 1].end
             /\ calls[p].out = calls[p + 2].out
             /\ calls[p].end = calls[p + 2].end
    /\ (Done /\ run = 2 /\ prev.plan = "body") =>
             /\ ret = prev.out
             /\ ret.tag = "ok" => r = prev.rest

C8_Witness ==
    /\ Done /\ run = 2 /\ prev.plan = "body"
    /\ root.ty = "Pair"
    /\ buf = <<15, 0, 172>>
    /\ ret = Ok(Value("Pair", "", 0, <<Value("u8", "", 15, <<>>), Value("u8", "", 0, <<>>)>>))
    /\ r = <<172>>
    /\ prev.consumed = 3

(* ---------------- C9 ---------------- *)

RejectedTag(k) ==
    \/ IsEnumCall(k) /\ TagRead(k) /\ Tag(k) \notin Discs(calls[k].ty)
    \/ IsPacketCall(k) /\ TagRead(k) /\ Tag(k) # Def(calls[k].ty).packet_id

\* C10: an enum decode that rejects its discriminant, and a decode_packet
\* that rejects its ID, leave the cursor just past the leading VarInt: those
\* bytes, and no others, are gone from the caller's cursor.
C10_RejectedTagConsumed ==
    \A k \in CallIds :
        (RejectedTag(k) /\ Closed(k)) =>
            /\ calls[k].end = calls[k + 1].end
            /\ calls[k + 1].start = calls[k].start
            /\ Used(k) >= 1
            /\ (k = 1 /\ Done) =>
                  /\ r = SubSeq(buf, Used(2) + 1, Len(buf))
                  /\ r # buf

C10_Witness ==
    /\ Done /\ run = 1
    /\ root = [ty |-> "PingPong", fn |-> "decode"]
    /\ buf = <<172, 2, 0>>
    /\ ret = Err("unexpected enum discriminant 300")
    /\ r = <<0>>

====
